---- MODULE Spec2Model ----
(***************************************************************************)
(* Execution engine of the code-runner extension: runCode, the scratch     *)
(* directory it shares between calls, and the shell process it spawns.     *)
(*                                                                         *)
(* The repository holds two copies of runCode:                             *)
(*   "tsx"  - src/src/run-code.tsx, lines 483-592 (JavaScript, Python, Go) *)
(*   "util" - src/unnamed/part_002, lines 25-147 (the same plus Java)      *)
(* `variant` says which copy a behaviour runs.                             *)
(*                                                                         *)
(* runCode is an async function on Node's single JavaScript thread: the    *)
(* code up to the `await` runs as one step (RunCodeStart), the exec        *)
(* callback with the catch/finally code after it as another                *)
(* (ExecCallback).  The spawned shell pipeline runs outside that thread    *)
(* and its steps interleave freely with the steps of other calls.          *)
(***************************************************************************)
EXTENDS Integers, Sequences, FiniteSets, TLC

\* Number of runCode calls in a behaviour (they may overlap).
NumCalls == 2

Calls == 1..NumCalls

Variants == {"tsx", "util"}

\* JavaScript values that are not strings.
Null == "<null>"
Undefined == "<undefined>"

-----------------------------------------------------------------------------
(* Inputs *)

\* Language ids a caller may pass: the ids of the two switches and one id
\* neither supports.
LangIds == {"javascript", "python", "go", "java", "ruby"}

\* The same ids in other spellings: upper case and capitalised.
UpperIds == {"JAVASCRIPT", "PYTHON", "GO", "JAVA", "RUBY"}
MixedIds == {"JavaScript", "Python", "Go", "Java", "Ruby"}
CaseIds == LangIds \cup UpperIds \cup MixedIds

\* ToLowerCase left out: the switch over `language` as it was passed.
ToLowerCaseLeftOut(s) == s

\* String.prototype.toLowerCase on the ids above.
ToLowerCase(s) ==
    CASE s \in {"JAVASCRIPT", "JavaScript"} -> "javascript"
      [] s \in {"PYTHON", "Python"} -> "python"
      [] s \in {"GO", "Go"} -> "go"
      [] s \in {"JAVA", "Java"} -> "java"
      [] s \in {"RUBY", "Ruby"} -> "ruby"
      [] OTHER -> s

NoClass == "<no public class>"

\* A source text, abstracted to what runCode and the toolchain see of it:
\* cls - the name captured by /public\s+class\s+([a-zA-Z0-9_]+)/, or NoClass;
\* beh - what the program does when run:
\*        "ok"   prints and exits 0
\*        "fail" prints to stdout and stderr and exits 1
\*        "spin" prints, then runs forever and ignores SIGTERM
\*        "cnf"  runs a command its own shell does not find, so that
\*               'command not found' is on its standard error, and exits 1
\*        "two"  as "ok", from a source that declares a second type,
\*               Helper, beside the one named by cls
Codes ==
    { [cls |-> "Main", beh |-> "ok"],
      [cls |-> "Main", beh |-> "fail"],
      [cls |-> NoClass, beh |-> "spin"] }

\* More source texts, for a call that runs alone: one whose program itself
\* reports a command not found, one that declares another class, and one
\* that declares two types.
MoreCodes ==
    Codes \cup { [cls |-> "Main", beh |-> "cnf"],
                 [cls |-> "App", beh |-> "ok"],
                 [cls |-> "Main", beh |-> "two"] }

\* The types a source declares beside the one named by cls.
OtherTypes(c) == IF c.beh = "two" THEN {"Helper"} ELSE {}

\* What a failed writeFileSync can leave in the file.
Truncated == [cls |-> NoClass, beh |-> "truncated"]

NoCode == [cls |-> NoClass, beh |-> "<none>"]

\* ClassNameMatch with a capture group that takes the rest of the line,
\* /public\s+class\s+(.+)/: the name runs on into the program's text.
ClassNameMatchRestOfLine(c) ==
    IF c.cls = NoClass THEN NoClass ELSE c.cls \o " { " \o c.beh

\* code.match(/public\s+class\s+([a-zA-Z0-9_]+)/): the captured name.
ClassNameMatch(c) == c.cls

\* Standard output and standard error a program has written when it exits
\* or is killed.
ProgramStdout(c) ==
    IF c.beh = "truncated" THEN "" ELSE "out of " \o c.cls \o "/" \o c.beh

\* What the shell of a "cnf" program prints for the command it misses.
ProgramCommandNotFound == "sh: 1: frobnicate: command not found"

ProgramStderr(c) ==
    IF c.beh \in {"fail", "truncated"} THEN "err of " \o c.cls \o "/" \o c.beh
    ELSE IF c.beh = "cnf" THEN ProgramCommandNotFound
    ELSE ""

-----------------------------------------------------------------------------
(* Paths and commands *)

\* path.join(__dirname, '..', '..', 'temp')
tempDir == "temp"

\* path.join(dir, name)
PathJoin(dir, name) == dir \o "/" \o name

\* uuidv4(): a fresh identifier per call.
uniqueId(i) == "uuid" \o ToString(i)

\* The switch over language.toLowerCase().  `status` is "ok" when the
\* switch falls through to the try block, otherwise the early return taken.
\* `artifact` is the file the compile half of rawCommand emits ("" for an
\* interpreted language) and `first` the command the pipeline starts with.
LanguageSwitch(v, language, id, c) ==
    LET l == ToLowerCase(language) IN
    CASE l = "javascript" ->
            LET filePath == PathJoin(tempDir, id \o ".js") IN
            [ status |-> "ok", filePath |-> filePath,
              rawCommand |-> "node " \o filePath,
              cleanupFiles |-> <<filePath>>,
              executableCommand |-> "node",
              artifact |-> "", first |-> "node" ]
      [] l = "python" ->
            LET filePath == PathJoin(tempDir, id \o ".py") IN
            [ status |-> "ok", filePath |-> filePath,
              rawCommand |-> "python3 " \o filePath,
              cleanupFiles |-> <<filePath>>,
              executableCommand |-> "python3",
              artifact |-> "", first |-> "python3" ]
      [] l = "go" ->
            LET filePath == PathJoin(tempDir, id \o ".go")
                goExecPath == PathJoin(tempDir, id) IN
            [ status |-> "ok", filePath |-> filePath,
              rawCommand |-> "go build -o " \o goExecPath \o " " \o filePath
                               \o " && " \o goExecPath,
              cleanupFiles |-> <<filePath, goExecPath>>,
              executableCommand |-> "go",
              artifact |-> goExecPath, first |-> "go" ]
      [] l = "java" /\ v = "util" ->
            IF ClassNameMatch(c) = NoClass
            THEN [ status |-> "noclass", filePath |-> "", rawCommand |-> "",
                   cleanupFiles |-> <<>>, executableCommand |-> "",
                   artifact |-> "", first |-> "" ]
            ELSE LET className == ClassNameMatch(c)
                     filePath == PathJoin(tempDir, className \o ".java") IN
                 [ status |-> "ok", filePath |-> filePath,
                   rawCommand |-> "javac " \o filePath \o " -d " \o tempDir
                                   \o " && java -cp " \o tempDir \o " "
                                   \o className,
                   cleanupFiles |->
                       <<filePath, PathJoin(tempDir, className \o ".class")>>,
                   executableCommand |-> "java",
                   artifact |-> PathJoin(tempDir, className \o ".class"),
                   first |-> "javac" ]
      [] OTHER ->
            [ status |-> "unsupported", filePath |-> "", rawCommand |-> "",
              cleanupFiles |-> <<>>, executableCommand |-> "",
              artifact |-> "", first |-> "" ]

\* process.env.SHELL || '/bin/zsh'
defaultShellPath == "/bin/zsh"

\* `${defaultShellPath} -l -c "${rawCommand.replace(/"/g, '\\"')}"`; no
\* rawCommand built by LanguageSwitch holds a double quote.
commandToExecute(rawCommand) ==
    defaultShellPath \o " -l -c \"" \o rawCommand \o "\""

\* The command field of a result that carries no command: null in
\* run-code.tsx, the empty string in part_002.
NoCommand(v) == IF v = "tsx" THEN Null ELSE ""

UnsupportedResult(v, language) ==
    [ stdout |-> "", stderr |-> "",
      error |-> "Unsupported language: " \o language,
      command |-> NoCommand(v) ]

MissingClassResult ==
    [ stdout |-> "", stderr |-> "",
      error |-> "Java code must contain a public class definition (e.g., public class Main).",
      command |-> "" ]

NoResult == [ stdout |-> "", stderr |-> "", error |-> Undefined,
              command |-> Undefined ]

-----------------------------------------------------------------------------
(* The host and the probe of detectInstalledLanguages *)

\* Calls of detectInstalledLanguages in a behaviour (one after the other).
MaxDetects == 2

\* languageChecks with the Java entry that the source has in a comment
\* ("Java removed from detection").
languageChecksWithJava ==
    << [name |-> "JavaScript", value |-> "javascript", command |-> "node"],
       [name |-> "Python", value |-> "python", command |-> "python3"],
       [name |-> "Go", value |-> "go", command |-> "go"],
       [name |-> "Java", value |-> "java", command |-> "javac"] >>

\* The registry: the array languageChecks.
languageChecks ==
    << [name |-> "JavaScript", value |-> "javascript", command |-> "node"],
       [name |-> "Python", value |-> "python", command |-> "python3"],
       [name |-> "Go", value |-> "go", command |-> "go"] >>

DetectCommands == { languageChecks[k].command : k \in DOMAIN languageChecks }

\* The host as a probe sees it:
\*   resolves - the commands `which` finds on the login shell's PATH;
\*   shell    - "ok": the login shell starts and is silent;
\*              "noisy": it starts and its profile writes to standard error;
\*              "unusable": it cannot be executed (exec fails to spawn).
Envs == [resolves : SUBSET DetectCommands, shell : {"ok", "noisy", "unusable"}]

ExecutablePath(cmd) == "/usr/local/bin/" \o cmd

NotFoundLine(cmd) == cmd \o " not found"

\* What exec hands the callback for `<shell> -l -c "which <command>"`:
\* zsh's which prints the path and exits 0, or prints "<command> not
\* found" on standard output and exits 1; a shell that cannot be spawned
\* gives an error and no output.
WhichOutput(e, command) ==
    IF e.shell = "unusable"
    THEN [ error |-> TRUE, stdout |-> "", stderr |-> "" ]
    ELSE [ error |-> command \notin e.resolves,
           stdout |-> IF command \in e.resolves
                      THEN ExecutablePath(command) \o "\n"
                      ELSE NotFoundLine(command) \o "\n",
           stderr |-> IF e.shell = "noisy"
                      THEN "compinit: insecure directories\n" ELSE "" ]

\* String.prototype.trim on the outputs above.
Trim(s) ==
    LET lines == { ExecutablePath(c) : c \in DetectCommands }
                 \cup { NotFoundLine(c) : c \in DetectCommands }
    IN  IF \E t \in lines : s = t \o "\n"
        THEN CHOOSE t \in lines : s = t \o "\n"
        ELSE s

\* findExecutable with a callback that looks at standard error only, and
\* so takes a failed `which` for a successful one.
findExecutableIgnoresError(e, command) ==
    LET r == WhichOutput(e, command) IN
    IF r.stderr # "" THEN Null ELSE Trim(r.stdout)

\* findExecutable(command): the value its promise resolves with.  The
\* promise is never rejected.
findExecutable(e, command) ==
    LET r == WhichOutput(e, command) IN
    IF r.error \/ r.stderr # "" THEN Null ELSE Trim(r.stdout)

-----------------------------------------------------------------------------
(* State *)

VARIABLES
    variant,    \* which copy of runCode runs
    dirExists,  \* the scratch directory exists
    files,      \* the scratch directory's entries: path -> content
    pc,         \* per call: "idle", "running" (awaiting exec), "done", "thrown"
    lang,       \* per call: the language argument
    code,       \* per call: the code argument
    proc,       \* per call: the state of the process exec spawned
    mem,        \* per call: the source text the process has loaded
    stdout,     \* per call: standard output captured by exec
    stderr,     \* per call: standard error captured by exec
    exit,       \* per call: how the process ended
    orphan,     \* per call: a compiler that outlived its killed shell
    result,     \* per call: the CodeExecutionResult returned
    errorLog,   \* the files console.error reported as not cleaned up
    execs,      \* per call: how many times the call has called exec
    env,        \* the host: which commands resolve, how the login shell fares
    detPc,      \* detectInstalledLanguages: "idle", "probing", "done", "thrown"
    detIdx,     \* the languageChecks entry the for loop is at
    detected,   \* the local array `detected` of the call under way
    detResult,  \* the list the last completed call returned
    detPrev,    \* the list the completed call before that returned
    detCount,   \* calls of detectInstalledLanguages so far
    detChanged, \* the host changed while the call under way was probing
    detNoSpawn, \* no probe of the call under way could spawn its shell
    isInitializing,     \* Command: the state isInitializing
    isExecutingCode,    \* Command: the state isExecutingCode
    uiLanguage,         \* Command: the state language
    uiCode,             \* Command: the state code
    uiResult,           \* Command: the state result (<< >> is null)
    availableLanguages, \* Command: the state availableLanguages
    storage,    \* LocalStorage: key -> value, for the keys that are set
    boot,       \* initializeExtension: where it is, and its locals
    det,        \* performLanguageDetection: where it is, and its locals
    chg,        \* handleLanguageChange: where it is, and its locals
    edit,       \* handleCodeChange: where it is, and its locals
    runs,       \* per run: handleRunCode, where it is and what it captured
    lastRun,    \* the run submitted last (0: none yet)
    entered,    \* language -> the text the user entered for it last
    shownBy,    \* the run whose result is in uiResult (0: none)
    events      \* user events so far

\* The state of detectInstalledLanguages and of the host it probes.
detVars == << env, detPc, detIdx, detected, detResult, detPrev, detCount,
             detChanged, detNoSpawn >>

\* The state of runCode, its processes and the scratch directory.
runVars == << variant, dirExists, files, pc, lang, code, proc, mem, stdout,
             stderr, exit, orphan, result, errorLog, execs >>

\* The state of the command's component and of LocalStorage.
uiVars == << isInitializing, isExecutingCode, uiLanguage, uiCode, uiResult,
            availableLanguages, storage, boot, det, chg, edit, runs,
            lastRun, entered,
            shownBy, events >>

vars == << runVars, detVars, uiVars >>

\* The values the switch computed for call i.
Sw(i) == LanguageSwitch(variant, lang[i], uniqueId(i), code[i])

Exists(fs, p) == p \in DOMAIN fs

\* fs with content c written to path p.
WriteFile(fs, p, c) ==
    [q \in (DOMAIN fs) \cup {p} |-> IF q = p THEN c ELSE fs[q]]

\* fs without the paths in gone.
RemoveFiles(fs, gone) == [q \in (DOMAIN fs) \ gone |-> fs[q]]

Range(s) == { s[k] : k \in DOMAIN s }

\* No call of runCode has been made and the scratch directory is not there.
RunCodeIdle ==
    /\ dirExists = FALSE
    /\ files = << >>
    /\ pc = [i \in Calls |-> "idle"]
    /\ lang = [i \in Calls |-> ""]
    /\ code = [i \in Calls |-> NoCode]
    /\ proc = [i \in Calls |-> "none"]
    /\ mem = [i \in Calls |-> NoCode]
    /\ stdout = [i \in Calls |-> ""]
    /\ stderr = [i \in Calls |-> ""]
    /\ exit = [i \in Calls |-> "none"]
    /\ orphan = [i \in Calls |-> "none"]
    /\ result = [i \in Calls |-> NoResult]
    /\ errorLog = {}
    /\ execs = [i \in Calls |-> 0]

\* No call of detectInstalledLanguages has been made.
DetectIdle ==
    /\ detPc = "idle"
    /\ detIdx = 0
    /\ detected = << >>
    /\ detResult = << >>
    /\ detPrev = << >>
    /\ detCount = 0
    /\ detChanged = FALSE
    /\ detNoSpawn = FALSE

\* Maximal number of overlapping runs the user submits.
MaxRuns == 2

RunIds == 1..MaxRuns

\* A handler that is not running.
Idle == [pc |-> "idle"]

\* The component before it is mounted: the useState initial values.
UiIdle ==
    /\ isInitializing = TRUE
    /\ isExecutingCode = FALSE
    /\ uiLanguage = ""
    /\ uiCode = ""
    /\ uiResult = << >>
    /\ availableLanguages = << >>
    /\ boot = [pc |-> "unmounted"]
    /\ det = Idle
    /\ chg = Idle
    /\ edit = Idle
    /\ runs = [r \in RunIds |-> Idle]
    /\ lastRun = 0
    /\ entered = << >>
    /\ shownBy = 0
    /\ events = 0

Init ==
    /\ variant \in Variants
    /\ RunCodeIdle
    /\ env = [resolves |-> DetectCommands, shell |-> "ok"]
    /\ DetectIdle
    /\ UiIdle
    /\ storage = << >>

-----------------------------------------------------------------------------
(* The catch and finally blocks *)

\* x || y
Or(x, y) == IF x \in {Undefined, Null, ""} THEN y ELSE x

\* CatchResult with the captured output dropped.
CatchResultDropsOutput(v, e) ==
    [ stdout |-> "",
      stderr |-> "",
      error |-> Or(e.error, Or(e.message, "Unknown error during execution")),
      command |-> NoCommand(v) ]

\* CatchResult that reads the error field only, which an Error thrown
\* by fs does not have.
CatchResultErrorFieldOnly(v, e) ==
    [ stdout |-> Or(e.stdout, ""),
      stderr |-> Or(e.stderr, ""),
      error |-> Or(e.error, Null),
      command |-> NoCommand(v) ]

\* The catch block: e is what was thrown, an Error (message only) or the
\* object the exec callback rejected with (stdout, stderr, error, command).
CatchResult(v, e) ==
    [ stdout |-> Or(e.stdout, ""),
      stderr |-> Or(e.stderr, ""),
      error |-> Or(e.error, Or(e.message, "Unknown error during execution")),
      command |-> NoCommand(v) ]

\* An Error thrown by fs.writeFileSync.
WriteError ==
    [ stdout |-> Undefined, stderr |-> Undefined, error |-> Undefined,
      message |-> "ENOSPC: no space left on device, write" ]

\* The finally block's forEach: every tracked file that exists is
\* unlinked; `failed` are the files whose unlinkSync throws (caught and
\* logged), which stay on disk.
UnlinkTracked(fs, cleanupFiles, failed) ==
    RemoveFiles(fs, { f \in Range(cleanupFiles) : Exists(fs, f) } \ failed)

\* The files the forEach reports with console.error.
UnlinkErrors(fs, cleanupFiles, failed) ==
    { f \in Range(cleanupFiles) : Exists(fs, f) } \cap failed

\* The finally block's last step: readdirSync throws when the directory
\* is missing; rmdirSync runs when the listing is empty and may itself
\* throw (rmdirOk = FALSE); both errors are swallowed.  The value is
\* whether the directory exists afterwards.
RemoveDirIfEmpty(dir, fs, rmdirOk) ==
    IF dir /\ DOMAIN fs = {} /\ rmdirOk THEN FALSE ELSE dir

-----------------------------------------------------------------------------
(* exec *)

\* What the login shell prints when a command does not resolve.
CommandNotFoundText(cmd) == "zsh:1: command not found: " \o cmd

\* What the shell or the toolchain prints when a file it is to read or
\* run is not there.
NoSuchFileText(path) == "no such file or directory: " \o path

Executables == {"node", "python3", "go", "javac", "java"}

\* s.includes('command not found') for the texts the model produces.
IncludesCommandNotFound(s) ==
    \/ \E c \in Executables : s = CommandNotFoundText(c)
    \/ s = ProgramCommandNotFound

\* error.message of the error exec hands to its callback: a process that
\* exits non-zero or is killed gives "Command failed: <cmd>\n<stderr>", a
\* failed spawn gives the spawn error.
ExecErrorMessage(how, cmd, err) ==
    IF how = "ENOENT" THEN "spawn " \o defaultShellPath \o " ENOENT"
    ELSE "Command failed: " \o cmd \o "\n" \o err

\* The message itself includes 'command not found' exactly when the
\* standard error appended to it does.
MessageIncludesCommandNotFound(how, err) ==
    how # "ENOENT" /\ IncludesCommandNotFound(err)

GuidanceMessage(executableCommand) ==
    "Error: '" \o executableCommand \o "' command not found. Please ensure '"
    \o executableCommand \o "' is installed and accessible in your system's PATH."

\* The exec callback: the object the promise is rejected with when error
\* is set.
Rejection(how, cmd, out, err, executableCommand) ==
    [ stdout |-> out, stderr |-> err,
      error |-> IF MessageIncludesCommandNotFound(how, err)
                THEN GuidanceMessage(executableCommand)
                ELSE ExecErrorMessage(how, cmd, err),
      command |-> cmd,
      message |-> Undefined ]

\* ExecResult with a callback that looks at the exit status only and so
\* takes a killed process (status null) for a successful one.
ExecResultIgnoresSignal(v, how, cmd, out, err, executableCommand) ==
    IF how \in {"0", "SIGTERM"}
    THEN [ stdout |-> out, stderr |-> err, error |-> Null, command |-> cmd ]
    ELSE CatchResult(v, Rejection(how, cmd, out, err, executableCommand))

\* The result runCode returns once the exec callback has run: `how` is
\* how the process ended ("0" is exit status zero, when exec passes no
\* error).
ExecResult(v, how, cmd, out, err, executableCommand) ==
    IF how = "0"
    THEN [ stdout |-> out, stderr |-> err, error |-> Null, command |-> cmd ]
    ELSE CatchResult(v, Rejection(how, cmd, out, err, executableCommand))

-----------------------------------------------------------------------------
(* runCode, up to the await *)

\* A call that returns before the try block: nothing but the result.
ReturnEarly(i, r) ==
    /\ pc' = [pc EXCEPT ![i] = "done"]
    /\ result' = [result EXCEPT ![i] = r]
    /\ UNCHANGED << files, proc, errorLog, execs >>

\* The call runCode(language, c), from its first line to the await of the
\* exec promise (or to its return, when it returns before that).
\*   mkdirOk - fs.mkdirSync succeeds (it runs only when the directory is
\*             missing; it is outside the try block, so its error leaves
\*             runCode as a rejected promise);
\*   written - what fs.writeFileSync does: "ok"; "none": throws and leaves
\*             no file; "partial": throws and leaves a truncated file;
\*   failed  - the tracked files whose unlinkSync throws in the finally block;
\*   rmdirOk - fs.rmdirSync succeeds in the finally block;
\*   spawnOk - exec can start the shell.
RunCodeStart(i, language, c, mkdirOk, written, failed, rmdirOk, spawnOk) ==
    /\ pc[i] = "idle"
    /\ \A j \in Calls : j < i => pc[j] # "idle"
    /\ lang' = [lang EXCEPT ![i] = language]
    /\ code' = [code EXCEPT ![i] = c]
    /\ UNCHANGED << uiVars, detVars, variant, mem, stdout, stderr, exit, orphan >>
    /\ IF ~dirExists /\ ~mkdirOk
       THEN /\ pc' = [pc EXCEPT ![i] = "thrown"]
            /\ UNCHANGED << dirExists, files, proc, result, errorLog, execs >>
       ELSE LET sw == LanguageSwitch(variant, language, uniqueId(i), c) IN
            CASE sw.status = "unsupported" ->
                    /\ dirExists' = TRUE
                    /\ ReturnEarly(i, UnsupportedResult(variant, language))
              [] sw.status = "noclass" ->
                    /\ dirExists' = TRUE
                    /\ ReturnEarly(i, MissingClassResult)
              [] written = "ok" ->
                    /\ dirExists' = TRUE
                    /\ files' = WriteFile(files, sw.filePath, c)
                    /\ proc' = [proc EXCEPT ![i] =
                                   IF ~spawnOk THEN "spawnerr"
                                   ELSE IF sw.artifact = "" THEN "run"
                                   ELSE "compile"]
                    /\ execs' = [execs EXCEPT ![i] = @ + 1]
                    /\ pc' = [pc EXCEPT ![i] = "running"]
                    /\ UNCHANGED << result, errorLog >>
              [] OTHER ->
                    LET afterWrite ==
                            IF written = "partial"
                            THEN WriteFile(files, sw.filePath, Truncated)
                            ELSE files
                        afterUnlink ==
                            UnlinkTracked(afterWrite, sw.cleanupFiles, failed)
                    IN  /\ files' = afterUnlink
                        /\ errorLog' = errorLog \cup
                              UnlinkErrors(afterWrite, sw.cleanupFiles, failed)
                        /\ dirExists' = RemoveDirIfEmpty(TRUE, afterUnlink, rmdirOk)
                        /\ result' = [result EXCEPT ![i] =
                                         CatchResult(variant, WriteError)]
                        /\ pc' = [pc EXCEPT ![i] = "done"]
                        /\ UNCHANGED << proc, execs >>

\* The paths a call may track.
TrackedPaths(i) == Range(Sw(i).cleanupFiles)

-----------------------------------------------------------------------------
(* The spawned pipeline *)

\* The process of call i ends: `how` is its exit status.
ProcessExits(i, how, out, err) ==
    /\ proc' = [proc EXCEPT ![i] = "exited"]
    /\ exit' = [exit EXCEPT ![i] = how]
    /\ stdout' = [stdout EXCEPT ![i] = out]
    /\ stderr' = [stderr EXCEPT ![i] = err]

\* The login shell does not resolve the pipeline's first command.
CommandNotFound(i) ==
    /\ pc[i] = "running"
    /\ proc[i] = (IF Sw(i).artifact = "" THEN "run" ELSE "compile")
    /\ ProcessExits(i, "127", "", CommandNotFoundText(Sw(i).first))
    /\ UNCHANGED << uiVars, detVars, execs, variant, dirExists, files, pc, lang, code, mem, orphan,
                    result, errorLog >>

\* The files the compile half of sw's pipeline emits for source c:
\* `go build -o` the binary; `javac -d` one class file per type the
\* source declares.
Emitted(sw, c) ==
    {sw.artifact} \cup
    IF sw.first = "javac"
    THEN { PathJoin(tempDir, t \o ".class") : t \in OtherTypes(c) }
    ELSE {}

\* fs with content c written to every path in ps.
WriteFiles(fs, ps, c) ==
    [q \in (DOMAIN fs) \cup ps |-> IF q \in ps THEN c ELSE fs[q]]

\* The compile half of the pipeline (go build, javac): it reads the source
\* file and emits the artifacts (the binary, the class files); a truncated
\* source does not compile.
Compile(i) ==
    /\ pc[i] = "running"
    /\ proc[i] = "compile"
    /\ IF ~Exists(files, Sw(i).filePath)
       THEN /\ ProcessExits(i, "1", "", NoSuchFileText(Sw(i).filePath))
            /\ UNCHANGED files
       ELSE IF files[Sw(i).filePath] = Truncated
       THEN /\ ProcessExits(i, "1", "", ProgramStderr(Truncated))
            /\ UNCHANGED files
       ELSE /\ files' = WriteFiles(files,
                                   Emitted(Sw(i), files[Sw(i).filePath]),
                                   files[Sw(i).filePath])
            /\ proc' = [proc EXCEPT ![i] = "run"]
            /\ UNCHANGED << exit, stdout, stderr >>
    /\ UNCHANGED << uiVars, detVars, execs, variant, dirExists, pc, lang, code, mem, orphan, result,
                    errorLog >>

\* The file the run half of the pipeline loads: the source for an
\* interpreter, the artifact for a compiled language.
ProgramPath(i) ==
    IF Sw(i).artifact = "" THEN Sw(i).filePath ELSE Sw(i).artifact

\* The interpreter, the binary or the JVM loads the program and runs it.
ProgramRun(i) ==
    /\ pc[i] = "running"
    /\ proc[i] = "run"
    /\ IF ~Exists(files, ProgramPath(i))
       THEN /\ ProcessExits(i, "1", "", NoSuchFileText(ProgramPath(i)))
            /\ UNCHANGED mem
       ELSE LET c == files[ProgramPath(i)] IN
            /\ mem' = [mem EXCEPT ![i] = c]
            /\ CASE c.beh \in {"ok", "two"} ->
                       ProcessExits(i, "0", ProgramStdout(c), ProgramStderr(c))
                 [] c.beh \in {"fail", "truncated", "cnf"} ->
                       ProcessExits(i, "1", ProgramStdout(c), ProgramStderr(c))
                 [] OTHER ->
                       /\ proc' = [proc EXCEPT ![i] = "looping"]
                       /\ stdout' = [stdout EXCEPT ![i] = ProgramStdout(c)]
                       /\ stderr' = [stderr EXCEPT ![i] = ProgramStderr(c)]
                       /\ UNCHANGED exit
    /\ UNCHANGED << uiVars, detVars, execs, variant, dirExists, files, pc, lang, code, orphan, result,
                    errorLog >>

\* exec's timeout (5000 ms) fires while the process is alive: exec sends
\* killSignal (SIGTERM) to its child, the shell.
\*  - A compiler that the shell started for the `&&` pipeline is not the
\*    child and is not signalled: it goes on as an orphan.
\*  - An interpreted program is the command the shell runs last, which the
\*    shell may exec in place of itself: the program is then the child, and
\*    one that ignores SIGTERM goes on running (heard = FALSE): the process
\*    never closes and exec never calls back.
Timeout(i, heard) ==
    /\ pc[i] = "running"
    /\ proc[i] \in {"compile", "run", "looping"}
    /\ IF /\ ~heard
          /\ proc[i] = "looping"
          /\ Sw(i).artifact = ""
       THEN /\ proc' = [proc EXCEPT ![i] = "deaf"]
            /\ UNCHANGED << exit, orphan >>
       ELSE /\ proc' = [proc EXCEPT ![i] = "killed"]
            /\ exit' = [exit EXCEPT ![i] = "SIGTERM"]
            /\ orphan' = [orphan EXCEPT ![i] =
                             IF proc[i] = "compile" THEN "compile"
                             ELSE "none"]
    /\ UNCHANGED << uiVars, detVars, execs, variant, dirExists, files, pc, lang, code, mem, stdout,
                    stderr, result, errorLog >>

\* A step of a compiler that outlived its shell: it reads the source if
\* that is still there, then emits the artifact if the directory is.
OrphanStep(i) ==
    /\ orphan[i] # "none"
    /\ IF orphan[i] = "compile"
       THEN /\ IF Exists(files, Sw(i).filePath)
               THEN /\ mem' = [mem EXCEPT ![i] = files[Sw(i).filePath]]
                    /\ orphan' = [orphan EXCEPT ![i] = "link"]
               ELSE /\ orphan' = [orphan EXCEPT ![i] = "none"]
                    /\ UNCHANGED mem
            /\ UNCHANGED files
       ELSE /\ files' = IF dirExists /\ mem[i] # Truncated
                        THEN WriteFiles(files, Emitted(Sw(i), mem[i]), mem[i])
                        ELSE files
            /\ orphan' = [orphan EXCEPT ![i] = "none"]
            /\ UNCHANGED mem
    /\ UNCHANGED << uiVars, detVars, execs, variant, dirExists, pc, lang, code, proc, stdout, stderr,
                    exit, result, errorLog >>

-----------------------------------------------------------------------------
(* runCode, after the await *)

\* exec resolving on the first output of the process instead of on its
\* close.
ExecCalledBackOnOutput(i) ==
    proc[i] \in {"exited", "killed", "spawnerr", "looping"}

\* exec has called back for call i: its child has closed (it exited or
\* was killed), or could not be spawned.
ExecCalledBack(i) == proc[i] \in {"exited", "killed", "spawnerr"}

\* ExecCallback with a retry: a callback that reports a failed spawn
\* calls exec once more before giving up.
ExecCallbackRetriesSpawn(i, failed, rmdirOk) ==
    /\ pc[i] = "running"
    /\ ExecCalledBack(i)
    /\ IF proc[i] = "spawnerr" /\ execs[i] < 2
       THEN /\ execs' = [execs EXCEPT ![i] = @ + 1]
            /\ UNCHANGED << result, files, errorLog, dirExists, pc >>
       ELSE /\ LET how == IF proc[i] = "spawnerr" THEN "ENOENT" ELSE exit[i]
                   afterUnlink ==
                       UnlinkTracked(files, Sw(i).cleanupFiles, failed)
               IN  /\ result' = [result EXCEPT ![i] =
                                    ExecResult(variant, how,
                                        commandToExecute(Sw(i).rawCommand),
                                        stdout[i], stderr[i],
                                        Sw(i).executableCommand)]
                   /\ files' = afterUnlink
                   /\ errorLog' = errorLog \cup
                         UnlinkErrors(files, Sw(i).cleanupFiles, failed)
                   /\ dirExists' =
                         RemoveDirIfEmpty(dirExists, afterUnlink, rmdirOk)
            /\ pc' = [pc EXCEPT ![i] = "done"]
            /\ UNCHANGED execs
    /\ UNCHANGED << uiVars, detVars, variant, lang, code, proc, mem, stdout, stderr,
                    exit, orphan >>

\* ExecCallback with unlinkSync outside a try block: the first file that
\* cannot be deleted makes the finally block throw, and the call with it.
ExecCallbackUnlinkThrows(i, failed, rmdirOk) ==
    /\ pc[i] = "running"
    /\ ExecCalledBack(i)
    /\ IF UnlinkErrors(files, Sw(i).cleanupFiles, failed) # {}
       THEN /\ pc' = [pc EXCEPT ![i] = "thrown"]
            /\ UNCHANGED << result, files, errorLog, dirExists >>
       ELSE /\ LET how == IF proc[i] = "spawnerr" THEN "ENOENT" ELSE exit[i]
                   afterUnlink ==
                       UnlinkTracked(files, Sw(i).cleanupFiles, failed)
               IN  /\ result' = [result EXCEPT ![i] =
                                    ExecResult(variant, how,
                                        commandToExecute(Sw(i).rawCommand),
                                        stdout[i], stderr[i],
                                        Sw(i).executableCommand)]
                   /\ files' = afterUnlink
                   /\ dirExists' =
                         RemoveDirIfEmpty(dirExists, afterUnlink, rmdirOk)
            /\ pc' = [pc EXCEPT ![i] = "done"]
            /\ UNCHANGED errorLog
    /\ UNCHANGED << uiVars, detVars, execs, variant, lang, code, proc, mem, stdout,
                    stderr, exit, orphan >>

\* exec calls back (the process closed, or could not be spawned); runCode
\* resumes: return or catch, then the finally block.
ExecCallback(i, failed, rmdirOk) ==
    /\ pc[i] = "running"
    /\ ExecCalledBack(i)
    /\ LET how == IF proc[i] = "spawnerr" THEN "ENOENT" ELSE exit[i]
           afterUnlink == UnlinkTracked(files, Sw(i).cleanupFiles, failed)
       IN  /\ result' = [result EXCEPT ![i] =
                            ExecResult(variant, how,
                                       commandToExecute(Sw(i).rawCommand),
                                       stdout[i], stderr[i],
                                       Sw(i).executableCommand)]
           /\ files' = afterUnlink
           /\ errorLog' = errorLog \cup
                 UnlinkErrors(files, Sw(i).cleanupFiles, failed)
           /\ dirExists' = RemoveDirIfEmpty(dirExists, afterUnlink, rmdirOk)
    /\ pc' = [pc EXCEPT ![i] = "done"]
    /\ UNCHANGED << uiVars, detVars, execs, variant, lang, code, proc, mem, stdout, stderr, exit,
                    orphan >>

-----------------------------------------------------------------------------

WriteOutcomes == {"ok", "none", "partial"}

\* A caller calls runCode.  The inputs are drawn where the code reads
\* them: mkdirSync runs only without the directory, exec only after a
\* complete write, the finally block of the synchronous part only after a
\* failed one.
RunCodeWith(ids, codes) ==
    \E i \in Calls, language \in ids, c \in codes,
       mkdirOk \in (IF dirExists THEN {TRUE} ELSE BOOLEAN),
       written \in WriteOutcomes :
       \E spawnOk \in (IF written = "ok" THEN BOOLEAN ELSE {TRUE}),
          rmdirOk \in (IF written = "ok" THEN {TRUE} ELSE BOOLEAN),
          failed \in (IF written = "ok" THEN {{}}
                      ELSE SUBSET Range(LanguageSwitch(variant, language,
                                            uniqueId(i), c).cleanupFiles)) :
          RunCodeStart(i, language, c, mkdirOk, written, failed, rmdirOk,
                       spawnOk)

\* Callers call runCode, and their calls may overlap.
CallRunCode == RunCodeWith(LangIds, Codes)

\* One caller calls runCode once, with an id in any spelling.
CallRunCodeAlone ==
    /\ \A j \in Calls : pc[j] = "idle"
    /\ RunCodeWith(CaseIds, MoreCodes)

\* The event loop runs an exec callback.
ResumeRunCode ==
    \E i \in Calls, rmdirOk \in BOOLEAN :
       \E failed \in SUBSET TrackedPaths(i) : ExecCallback(i, failed, rmdirOk)

Next ==
    \/ CallRunCode
    \/ \E i \in Calls : CommandNotFound(i)
    \/ \E i \in Calls : Compile(i)
    \/ \E i \in Calls : ProgramRun(i)
    \/ \E i \in Calls, heard \in BOOLEAN : Timeout(i, heard)
    \/ \E i \in Calls : OrphanStep(i)
    \/ ResumeRunCode

Spec == Init /\ [][Next]_vars

\* A single call of runCode, over the wider inputs.
NextAlone ==
    \/ CallRunCodeAlone
    \/ \E i \in Calls : CommandNotFound(i)
    \/ \E i \in Calls : Compile(i)
    \/ \E i \in Calls : ProgramRun(i)
    \/ \E i \in Calls, heard \in BOOLEAN : Timeout(i, heard)
    \/ \E i \in Calls : OrphanStep(i)
    \/ ResumeRunCode

SpecAlone == Init /\ [][NextAlone]_vars

-----------------------------------------------------------------------------
(* detectInstalledLanguages *)

\* What `await` gives for a promise that was rejected.
Rejected == "<rejected>"

\* DetectStart with `detected` declared outside the function, so that it
\* still holds what the last call pushed.
DetectStartKeepsList ==
    /\ detPc \in {"idle", "done"}
    /\ detCount < MaxDetects
    /\ detPc' = "probing"
    /\ detIdx' = 1
    /\ detected' = detResult
    /\ detPrev' = detResult
    /\ detCount' = detCount + 1
    /\ detChanged' = FALSE
    /\ detNoSpawn' = TRUE
    /\ UNCHANGED << env, detResult, runVars, uiVars >>

\* A caller calls detectInstalledLanguages: an empty `detected`, and the
\* for loop reaches its first await.
DetectStart ==
    /\ detPc \in {"idle", "done"}
    /\ detCount < MaxDetects
    /\ detPc' = "probing"
    /\ detIdx' = 1
    /\ detected' = << >>
    /\ detPrev' = detResult
    /\ detCount' = detCount + 1
    /\ detChanged' = FALSE
    /\ detNoSpawn' = TRUE
    /\ UNCHANGED << env, detResult, runVars, uiVars >>

\* The probe of the entry the loop is at calls back and the function
\* resumes: push if the path is truthy, then the next await, or after
\* the last entry the return.  A rejected promise would make the await
\* throw; nothing in the function catches.
Probe ==
    /\ detPc = "probing"
    /\ LET check == languageChecks[detIdx]
           executablePath == findExecutable(env, check.command)
           pushed ==
               IF executablePath \in {Null, ""} THEN detected
               ELSE Append(detected,
                           [ name |-> check.name, value |-> check.value,
                             executablePath |-> executablePath ])
       IN  IF executablePath = Rejected
           THEN /\ detPc' = "thrown"
                /\ UNCHANGED << detIdx, detected, detResult, detNoSpawn >>
           ELSE /\ detected' = pushed
                /\ detIdx' = detIdx + 1
                /\ detNoSpawn' = (detNoSpawn /\ env.shell = "unusable")
                /\ IF detIdx = Len(languageChecks)
                   THEN /\ detPc' = "done"
                        /\ detResult' = pushed
                   ELSE UNCHANGED << detPc, detResult >>
    /\ UNCHANGED << env, detPrev, detCount, detChanged, runVars, uiVars >>

\* The host changes: a toolchain is installed or removed, the login
\* shell's profile or the shell itself changes.
EnvChange ==
    /\ \E e \in Envs \ {env} : env' = e
    /\ detChanged' = (detChanged \/ detPc = "probing")
    /\ UNCHANGED << detPc, detIdx, detected, detResult, detPrev, detCount,
                    detNoSpawn, runVars, uiVars >>

InitDetect ==
    /\ variant = "tsx"
    /\ RunCodeIdle
    /\ env \in Envs
    /\ DetectIdle
    /\ UiIdle
    /\ storage = << >>

NextDetect ==
    \/ DetectStart
    \/ Probe
    \/ EnvChange

SpecDetect == InitDetect /\ [][NextDetect]_vars

-----------------------------------------------------------------------------
(* Detection, then a run of a detected language *)

\* A caller hands runCode the value of a language that the last call of
\* detectInstalledLanguages returned.
CallRunCodeDetected ==
    /\ detPc = "done"
    /\ \A j \in Calls : pc[j] = "idle"
    /\ \E k \in DOMAIN detResult : RunCodeWith({detResult[k].value}, Codes)

InitUse ==
    /\ variant \in Variants
    /\ RunCodeIdle
    /\ env \in Envs
    /\ DetectIdle
    /\ UiIdle
    /\ storage = << >>

NextUse ==
    \/ DetectStart
    \/ Probe
    \/ CallRunCodeDetected
    \/ \E i \in Calls : CommandNotFound(i)
    \/ \E i \in Calls : Compile(i)
    \/ \E i \in Calls : ProgramRun(i)
    \/ \E i \in Calls, heard \in BOOLEAN : Timeout(i, heard)
    \/ \E i \in Calls : OrphanStep(i)
    \/ ResumeRunCode

SpecUse == InitUse /\ [][NextUse]_vars

-----------------------------------------------------------------------------
(* Properties *)

Started(i) == pc[i] # "idle"

\* The call spawned a process.
Spawned(i) == proc[i] # "none"

\* The call's process is alive.
Alive(i) == proc[i] \in {"compile", "run", "looping", "deaf"}

\* exec's timeout fired for the call.
TimedOut(i) == exit[i] = "SIGTERM" \/ proc[i] = "deaf"

\* The step starts call i.
Starts(i) == pc[i] = "idle" /\ pc'[i] # "idle"

\* C1: runCode never throws or rejects: whatever the filesystem and the
\* process do, the call resolves, and the result of a failed call carries
\* the failure in its error field.
C1_NeverThrows ==
    \A i \in Calls :
        /\ pc[i] # "thrown"
        /\ ( /\ pc[i] = "done"
             /\ (Sw(i).status # "ok" \/ ~Spawned(i) \/ exit[i] # "0") )
           => result[i].error \notin {Null, Undefined, ""}

\* The files call i creates under its unique identifier: the source file
\* and the compiled binary.
UuidFiles(i) ==
    IF Sw(i).status = "ok" /\ ToLowerCase(lang[i]) # "java"
    THEN TrackedPaths(i) ELSE {}

\* C2: once a runCode call has returned (success, non-zero exit, timeout,
\* failed write), no file the call created in the scratch directory is on
\* disk: neither its source file nor the binary named by its unique
\* identifier.  A file whose unlinkSync threw is left aside here (the
\* finally block reported it), so that a violation shows a file the code
\* never tried to delete.
C2_NoFileOutlivesCall ==
    \A i \in Calls :
        pc[i] = "done" =>
            \A f \in UuidFiles(i) : Exists(files, f) => f \in errorLog

\* C3: a call with a language id no case of the switch matches returns
\* the unsupported-language error and touches nothing: the scratch
\* directory and its entries are as before the call and no process is
\* spawned.
C3_UnsupportedTouchesNothing ==
    [][ \A i \in Calls :
          ( /\ Starts(i)
            /\ pc'[i] = "done"
            /\ LanguageSwitch(variant, lang'[i], uniqueId(i),
                              code'[i]).status = "unsupported" )
          => /\ result'[i] = UnsupportedResult(variant, lang'[i])
             /\ dirExists' = dirExists
             /\ files' = files
             /\ proc'[i] = "none" ]_vars

\* C4: where Java is supported, a call whose source declares no public
\* class returns the missing-entry-type error, with no file written and
\* no process spawned.
C4_MissingClassBeforeWrite ==
    [][ \A i \in Calls :
          ( /\ Starts(i)
            /\ variant = "util"
            /\ ToLowerCase(lang'[i]) = "java"
            /\ ClassNameMatch(code'[i]) = NoClass )
          => /\ pc'[i] = "done"
             /\ result'[i] = MissingClassResult
             /\ files' = files
             /\ proc'[i] = "none" ]_vars

\* C5: in the result of a call that spawned a process, error is null
\* exactly when the process exited with status zero: a non-zero exit, a
\* failed spawn and a timeout all give a non-null error.
C5_ErrorNullIffExitZero ==
    \A i \in Calls :
        (pc[i] = "done" /\ Spawned(i)) =>
            ( result[i].error = Null
              <=> (proc[i] = "exited" /\ exit[i] = "0") )

\* Both halves of C5 in one state: a call that exited zero and got a null
\* error, and a call that timed out and got an error.
C5_Witness ==
    \E i, j \in Calls :
        /\ pc[i] = "done" /\ proc[i] = "exited" /\ exit[i] = "0"
        /\ result[i].error = Null
        /\ pc[j] = "done" /\ exit[j] = "SIGTERM"
        /\ result[j].error # Null

\* C6: when the spawned process fails (non-zero exit, failed spawn,
\* timeout), the result carries the standard output and standard error
\* exec had captured, unchanged.
C6_PartialOutputKept ==
    \A i \in Calls :
        (pc[i] = "done" /\ Spawned(i) /\ result[i].error # Null) =>
            /\ result[i].stdout = stdout[i]
            /\ result[i].stderr = stderr[i]

\* A program that wrote to both streams and exited non-zero, and a
\* program killed by the timeout after it had printed: both results hold
\* the text.
C6_Witness ==
    \E i, j \in Calls :
        /\ pc[i] = "done" /\ exit[i] = "1" /\ result[i].error # Null
        /\ result[i].stdout = ProgramStdout(code[i])
        /\ result[i].stderr = ProgramStderr(code[i])
        /\ result[i].stdout # "" /\ result[i].stderr # ""
        /\ pc[j] = "done" /\ exit[j] = "SIGTERM"
        /\ result[j].stdout = ProgramStdout(code[j])
        /\ result[j].stdout # ""

\* exec has something to call back with for call i.
CallbackEnabled(i) ==
    ENABLED (\E rmdirOk \in BOOLEAN :
                \E failed \in SUBSET TrackedPaths(i) :
                    ExecCallback(i, failed, rmdirOk))

\* The error a non-zero exit would give call i, had the process printed
\* the same.
NonZeroExitError(i) ==
    ExecResult(variant, "1", commandToExecute(Sw(i).rawCommand), stdout[i],
               stderr[i], Sw(i).executableCommand).error

\* C7: a call whose program outlives the 5-second timeout does not hang:
\* once the timeout has fired the call is about to return, and the result
\* it returns carries an error that marks the timeout (one a non-zero exit
\* does not give).
C7_TimeoutReturnsTimeoutError ==
    \A i \in Calls :
        TimedOut(i) =>
            /\ pc[i] = "running" => CallbackEnabled(i)
            /\ pc[i] = "done" =>
                  result[i].error \notin {Null, NonZeroExitError(i)}

\* C8: with overlapping calls, each call's process loads only the source
\* the call itself wrote, and the result's streams are those of the call's
\* own program (or of its own toolchain missing).
C8_OwnSourceOnly ==
    \A i \in Calls :
        /\ mem[i] \in {NoCode, code[i]}
        /\ (pc[i] = "done" /\ Spawned(i)) =>
              /\ result[i].stdout \in {"", ProgramStdout(code[i])}
              /\ result[i].stderr \in
                    {"", ProgramStderr(code[i]),
                     CommandNotFoundText(Sw(i).first)}

\* C9: the files two distinct calls track for cleanup are disjoint.
C9_DisjointArtifacts ==
    \A i, j \in Calls :
        (i # j /\ Started(i) /\ Started(j)) =>
            TrackedPaths(i) \cap TrackedPaths(j) = {}

\* C10: while a call's process is alive the scratch directory exists: no
\* sibling's remove-if-empty step takes it away.
C10_DirectoryStaysForSiblings ==
    \A i \in Calls : (pc[i] = "running" /\ Alive(i)) => dirExists

-----------------------------------------------------------------------------
(* Claims C11 to C20 *)

\* The step returns call i: its promise resolves.
Returns(i) == pc[i] # "done" /\ pc'[i] = "done"

\* C11: whenever a runCode call returns and the scratch directory has no
\* entries at that moment, the directory no longer exists, on every
\* return path.  A return through the finally block leaves an empty
\* directory only when rmdirSync itself throws; that is left aside here,
\* so that a violation shows a return path on which the code never tries
\* to remove the directory.
C11_EmptyDirectoryRemoved ==
    [][ \A i \in Calls :
          ( /\ Returns(i)
            /\ LanguageSwitch(variant, lang'[i], uniqueId(i),
                              code'[i]).status # "ok"
            /\ DOMAIN files' = {} )
          => ~dirExists' ]_vars

\* The registry entry of a detected language.
CheckOf(d) ==
    CHOOSE check \in Range(languageChecks) : check.value = d.value

\* `which` finds the command in the login shell of host e.
Resolves(e, command) == e.shell # "unusable" /\ command \in e.resolves

\* C12: detectInstalledLanguages never includes a language whose probe
\* command does not resolve in the shell environment it was probed in (the
\* path it records is the one `which` printed), never throws because a
\* toolchain is missing, and returns the empty list when none is found.
C12_OnlyResolvedLanguages ==
    [][ detPc = "probing" =>
          /\ detPc' # "thrown"
          /\ \A k \in DOMAIN detected' \ DOMAIN detected :
                /\ Resolves(env, CheckOf(detected'[k]).command)
                /\ detected'[k].executablePath =
                      ExecutablePath(CheckOf(detected'[k]).command)
          /\ (detPc' = "done" /\ ~detChanged /\ env.resolves = {})
                => detResult' = << >> ]_vars

\* On a host where only node and go resolve a call returned those two,
\* after an earlier call had returned the empty list.
C12_Witness ==
    /\ detPc = "done"
    /\ detCount = 2
    /\ ~detChanged
    /\ env = [resolves |-> {"node", "go"}, shell |-> "ok"]
    /\ detPrev = << >>
    /\ Len(detResult) = 2
    /\ detResult[1].value = "javascript"
    /\ detResult[2].value = "go"

\* C13: when no probe of a call could spawn its shell (the shell cannot be
\* executed at all), detectInstalledLanguages throws instead of returning
\* a list.
C13_RegistryWideFailureSurfaces ==
    (detNoSpawn /\ detIdx > Len(languageChecks)) => detPc = "thrown"

\* The list a call returns on host e when it returns what the host holds:
\* the registry's languages, in registry order, whose probe comes back
\* clean.
RECURSIVE DetectedOn(_, _)
DetectedOn(e, k) ==
    IF k = 0 THEN << >>
    ELSE LET check == languageChecks[k] IN
         IF e.shell = "ok" /\ check.command \in e.resolves
         THEN Append(DetectedOn(e, k - 1),
                     [ name |-> check.name, value |-> check.value,
                       executablePath |-> ExecutablePath(check.command) ])
         ELSE DetectedOn(e, k - 1)

\* C14: detectInstalledLanguages keeps no state and changes nothing on
\* the host: its steps leave the host and the scratch directory as they
\* are, a call that returns has probed every entry of the registry, and
\* the list it returns is determined by the host it probed, so that two
\* calls on an unchanged host return the same list and a call after a
\* change returns the list of the changed host.
C14_DetectionIsAFunctionOfTheHost ==
    [][ (detPc = "probing" /\ env' = env) =>
          /\ dirExists' = dirExists /\ files' = files
          /\ detPc' = "done" =>
                /\ detIdx' = Len(languageChecks) + 1
                /\ ~detChanged =>
                      detResult' = DetectedOn(env, Len(languageChecks)) ]_vars

\* Two calls with a change of the host between them, not during them:
\* each returned the list of the host it ran on, and the lists differ.
C14_Witness ==
    /\ detPc = "done"
    /\ detCount = 2
    /\ ~detChanged
    /\ detResult = DetectedOn(env, Len(languageChecks))
    /\ detPrev # << >>
    /\ detResult # << >>
    /\ detResult # detPrev
    /\ Len(detResult) < Len(detPrev)

\* The process of call i failed because the login shell did not find the
\* language's target executable (the command the guidance names).
TargetMissing(i) ==
    /\ proc[i] = "exited"
    /\ exit[i] = "127"
    /\ stderr[i] = CommandNotFoundText(Sw(i).executableCommand)

\* The message of the error exec handed the callback of call i.
UnderlyingMessage(i) ==
    ExecErrorMessage(IF proc[i] = "spawnerr" THEN "ENOENT" ELSE exit[i],
                     commandToExecute(Sw(i).rawCommand), stderr[i])

\* C15: the error of a failed run is the guidance message naming the
\* missing command exactly when the language's target executable was not
\* found; after any other failure (a program that itself reports a command
\* not found and exits non-zero, a missing compiler that is not the named
\* command, a timeout, a failed spawn) it is the underlying message.
C15_GuidanceOnlyForMissingTarget ==
    \A i \in Calls :
        (pc[i] = "done" /\ Spawned(i) /\ result[i].error # Null) =>
            result[i].error =
                IF TargetMissing(i)
                THEN GuidanceMessage(Sw(i).executableCommand)
                ELSE UnderlyingMessage(i)

\* The spellings of each lower-case id.
SpellingsOf(l) ==
    CASE l = "javascript" -> {"javascript", "JAVASCRIPT", "JavaScript"}
      [] l = "python" -> {"python", "PYTHON", "Python"}
      [] l = "go" -> {"go", "GO", "Go"}
      [] l = "java" -> {"java", "JAVA", "Java"}
      [] l = "ruby" -> {"ruby", "RUBY", "Ruby"}

\* What the switch computes for call i when handed the lower-case id that
\* the call's language argument spells.
SwLowerCase(i) ==
    LanguageSwitch(variant, CHOOSE l \in LangIds : lang[i] \in SpellingsOf(l),
                   uniqueId(i), code[i])

\* C16: language ids are matched case-insensitively: in whatever case the
\* id is spelled, the call takes the same branch, the same file (and
\* extension), the same command pipeline and the same tracked artifacts as
\* with the lower-case id, and a successful run reports that pipeline as
\* its command.
C16_CaseInsensitiveIds ==
    \A i \in Calls :
        Started(i) =>
            /\ Sw(i).status = SwLowerCase(i).status
            /\ Sw(i).filePath = SwLowerCase(i).filePath
            /\ Sw(i).rawCommand = SwLowerCase(i).rawCommand
            /\ Sw(i).cleanupFiles = SwLowerCase(i).cleanupFiles
            /\ (pc[i] = "done" /\ exit[i] = "0") =>
                  result[i].command =
                      commandToExecute(SwLowerCase(i).rawCommand)

\* runCode('GO', ...) and runCode('JavaScript', ...) ran their programs with
\* the pipelines of 'go' and 'javascript'.
C16_Witness ==
    \E i \in Calls :
        /\ lang[i] \in {"GO", "JavaScript"}
        /\ pc[i] = "done"
        /\ exit[i] = "0"
        /\ Sw(i).status = "ok"
        /\ result[i].command = commandToExecute(SwLowerCase(i).rawCommand)
        /\ result[i].stdout = ProgramStdout(code[i])

\* C17: each call of runCode calls exec at most once: once when the
\* language is supported, the public class (where one is needed) is there
\* and the source file was written, and not at all when the call returns
\* the unsupported-language, the missing-class or the write error; no
\* later step of the call spawns again.
C17_AtMostOneProcess ==
    [][ \A i \in Calls :
          LET sw == LanguageSwitch(variant, lang'[i], uniqueId(i), code'[i])
              writeFailed == result'[i].error = WriteError.message
          IN  /\ execs'[i] <= 1
              /\ ~Starts(i) => execs'[i] = execs[i]
              /\ (Starts(i) /\ (sw.status # "ok" \/ writeFailed)) =>
                    execs'[i] = 0 /\ proc'[i] = "none"
              /\ (Starts(i) /\ sw.status = "ok" /\ ~writeFailed
                            /\ pc'[i] # "thrown") =>
                    /\ execs'[i] = 1
                    /\ Exists(files', sw.filePath)
                    /\ files'[sw.filePath] = code'[i] ]_vars

\* One call ran a process to its end and another stopped at a failed
\* write: one exec and none.
C17_Witness ==
    \E i, j \in Calls :
        /\ pc[i] = "done" /\ proc[i] = "exited" /\ execs[i] = 1
        /\ pc[j] = "done" /\ result[j].error = WriteError.message
        /\ proc[j] = "none" /\ execs[j] = 0

\* The result fixed when the exec callback of call i runs, before the
\* finally block.
ResultBeforeCleanup(i) ==
    ExecResult(variant, IF proc[i] = "spawnerr" THEN "ENOENT" ELSE exit[i],
               commandToExecute(Sw(i).rawCommand), stdout[i], stderr[i],
               Sw(i).executableCommand)

\* C18: a failure during cleanup (an unlinkSync, the readdirSync or the
\* rmdirSync that throws) never changes the result and never makes the
\* call throw: whatever the finally block meets, a call that leaves its
\* await returns, with the stdout, stderr, error and command fixed before
\* cleanup started, and a call whose write failed returns the write error.
C18_CleanupNeverMasksResult ==
    [][ \A i \in Calls :
          /\ (pc[i] = "running" /\ pc'[i] # "running") =>
                /\ pc'[i] = "done"
                /\ result'[i] = ResultBeforeCleanup(i)
          /\ (Starts(i) /\ pc'[i] = "done" /\ errorLog' # errorLog) =>
                result'[i] = CatchResult(variant, WriteError) ]_vars

\* A successful run whose source file could not be deleted (the one entry
\* left in the directory), and a failed run: both results are those of the
\* run.
C18_Witness ==
    \E i, j \in Calls :
        /\ pc[i] = "done" /\ exit[i] = "0"
        /\ Sw(i).filePath \in errorLog
        /\ result[i].error = Null
        /\ result[i].stdout = ProgramStdout(code[i])
        /\ pc[j] = "done" /\ exit[j] = "1"
        /\ DOMAIN files = {Sw(i).filePath}
        /\ result[j].stderr = ProgramStderr(code[j])
        /\ result[j].error # Null

\* C19: within one call the steps come in order: exec is called only with
\* the source file written; the finally block deletes the tracked
\* artifacts, and the call returns, only once the process exec spawned
\* has exited or been killed (or could not be spawned); until then the
\* call holds no result, and when it returns cleanup has run: no tracked
\* file is left but one whose unlinkSync threw.
C19_WriteSpawnTerminateCleanReturn ==
    [][ \A i \in Calls :
          LET sw == LanguageSwitch(variant, lang'[i], uniqueId(i), code'[i])
          IN  /\ (proc[i] = "none" /\ proc'[i] # "none") =>
                    /\ Exists(files', sw.filePath)
                    /\ files'[sw.filePath] = code'[i]
              /\ pc'[i] = "running" => result'[i] = NoResult
              /\ (pc[i] = "running" /\ Alive(i)) =>
                    /\ pc'[i] = "running"
                    /\ (\A j \in Calls \ {i} : pc'[j] = pc[j]) =>
                          \A f \in TrackedPaths(i) :
                             Exists(files, f) => Exists(files', f)
              /\ (Returns(i) /\ pc[i] = "running") =>
                    /\ proc[i] \in {"exited", "killed", "spawnerr"}
                    /\ \A f \in TrackedPaths(i) :
                          Exists(files', f) => f \in errorLog' ]_vars

\* A call whose process was killed by the timeout and a call whose
\* process exited have both returned, with nothing of theirs left.
C19_Witness ==
    \E i, j \in Calls :
        /\ pc[i] = "done" /\ proc[i] = "killed"
        /\ pc[j] = "done" /\ proc[j] = "exited" /\ exit[j] = "0"
        /\ result[i].error # Null
        /\ result[j].error = Null
        /\ DOMAIN files = {}
        /\ ~dirExists

\* The command line runCode would execute for call i had it been handed
\* the source text c instead.
CommandFor(i, c) ==
    commandToExecute(LanguageSwitch(variant, lang[i], uniqueId(i), c).rawCommand)

\* Source texts whose difference the command line may show: for Java
\* those that declare another public class, otherwise none.
SameEntryType(i, c) ==
    ToLowerCase(lang[i]) = "java" => c.cls = code[i].cls

\* C20: the command line does not depend on the source text except
\* through the file: with the same language, unique identifier and
\* directory, any other source text (for Java, any other with the same
\* public class name) gives the identical command string, and that string
\* is the command the call ran.
C20_CommandIndependentOfSource ==
    \A i \in Calls :
        (Started(i) /\ Sw(i).status = "ok") =>
            /\ \A c \in MoreCodes :
                  SameEntryType(i, c) =>
                      CommandFor(i, c) = commandToExecute(Sw(i).rawCommand)
            /\ (pc[i] = "done" /\ exit[i] = "0") =>
                  \A c \in MoreCodes :
                      SameEntryType(i, c) => result[i].command = CommandFor(i, c)

\* A Java call ran to its end: its command is the one a different source
\* with the same class name gives, and not the one of another class.
C20_Witness ==
    \E i \in Calls :
        /\ variant = "util"
        /\ lang[i] = "java"
        /\ code[i] = [cls |-> "Main", beh |-> "ok"]
        /\ pc[i] = "done"
        /\ exit[i] = "0"
        /\ result[i].command = CommandFor(i, [cls |-> "Main", beh |-> "cnf"])
        /\ result[i].command # CommandFor(i, [cls |-> "App", beh |-> "ok"])

-----------------------------------------------------------------------------
(* Claims C21 to C25 *)

\* Call i runs the Java pipeline.
IsJava(i) == Started(i) /\ Sw(i).status = "ok" /\ Sw(i).first = "javac"

\* C21: for Java, every file the compile step emitted into the scratch
\* directory (one class file per type the source declares) is in the
\* call's tracked cleanup set, and when runCode returns none of them is
\* left (but one whose unlinkSync threw).
C21_AllClassFilesCleaned ==
    [][ \A i \in Calls :
          (Returns(i) /\ IsJava(i)) =>
              \A f \in Emitted(Sw(i), code[i]) :
                 Exists(files, f) =>
                    /\ f \in TrackedPaths(i)
                    /\ Exists(files', f) => f \in errorLog' ]_vars

\* C22: if writing the source file throws, runCode spawns no process and
\* returns a result with a non-null error and empty stdout and stderr, and
\* the cleanup step has run all the same: no tracked file is left (what
\* the failed write left of the source file included) but one whose
\* unlinkSync threw, and the scratch directory is gone unless it holds an
\* entry or rmdirSync refused.
C22_WriteFailureStillCleansUp ==
    [][ \A i \in Calls :
          ( /\ Starts(i)
            /\ pc'[i] = "done"
            /\ LanguageSwitch(variant, lang'[i], uniqueId(i),
                              code'[i]).status = "ok" )
          => /\ proc'[i] = "none" /\ execs'[i] = 0
             /\ result'[i].error \notin {Null, Undefined, ""}
             /\ result'[i].stdout = "" /\ result'[i].stderr = ""
             /\ \A f \in Range(LanguageSwitch(variant, lang'[i], uniqueId(i),
                                             code'[i]).cleanupFiles) :
                   Exists(files', f) => f \in errorLog'
             /\ \E rmdirOk \in BOOLEAN :
                   dirExists' = RemoveDirIfEmpty(TRUE, files', rmdirOk) ]_vars

\* A call whose write failed has returned the write error; nothing is in
\* the directory and the directory is gone.
C22_Witness ==
    \E i \in Calls :
        /\ pc[i] = "done"
        /\ Sw(i).status = "ok"
        /\ result[i].error = WriteError.message
        /\ result[i].stdout = "" /\ result[i].stderr = ""
        /\ execs[i] = 0
        /\ DOMAIN files = {}
        /\ ~dirExists

\* The registry's languages whose probe command resolves on host e, once
\* each, in registry order, with the path `which` prints.
RECURSIVE ResolvedOn(_, _)
ResolvedOn(e, k) ==
    IF k = 0 THEN << >>
    ELSE LET check == languageChecks[k] IN
         IF Resolves(e, check.command)
         THEN Append(ResolvedOn(e, k - 1),
                     [ name |-> check.name, value |-> check.value,
                       executablePath |-> ExecutablePath(check.command) ])
         ELSE ResolvedOn(e, k - 1)

\* C23: detectInstalledLanguages includes every registered language whose
\* probe resolves in the login shell (which exits zero and prints a
\* path), also when the login shell writes to standard error as well; the
\* list holds them once each, in registry order.
C23_EveryResolvedLanguageListed ==
    [][ (detPc = "probing" /\ detPc' = "done" /\ ~detChanged /\ env' = env)
          => detResult' = ResolvedOn(env, Len(languageChecks)) ]_vars

\* The result of call i carries a command.
HasCommand(i) == result[i].command \notin {Null, Undefined, ""}

\* exec spawned a process for call i, which has ended.
ProcessRan(i) == proc[i] \in {"exited", "killed"}

\* C24: in every result runCode returns, the command field is set exactly
\* when a process was spawned: after a normal exit, a non-zero exit and a
\* timeout alike it is the shell-wrapped command that was executed.  (The
\* empty string that part_002 puts in a result without a command is taken
\* for null here.)
C24_CommandIffSpawned ==
    \A i \in Calls :
        pc[i] = "done" =>
            /\ HasCommand(i) <=> ProcessRan(i)
            /\ ProcessRan(i) =>
                  result[i].command = commandToExecute(Sw(i).rawCommand)

\* C25: every language detectInstalledLanguages can return is accepted by
\* runCode: on either copy the switch has a case for each detected value,
\* and a call made with a detected value never returns the
\* unsupported-language error.
C25_DetectedLanguagesAccepted ==
    /\ \A k \in DOMAIN detResult :
          LanguageSwitch(variant, detResult[k].value, uniqueId(1),
                         NoCode).status # "unsupported"
    /\ \A i \in Calls :
          pc[i] = "done" =>
              /\ Sw(i).status # "unsupported"
              /\ result[i].error # UnsupportedResult(variant, lang[i]).error

\* Detection returned Go among others and a call of runCode with "go" has
\* compiled and run its program.
C25_Witness ==
    \E i \in Calls, k \in DOMAIN detResult :
        /\ detResult[k].value = "go"
        /\ lang[i] = "go"
        /\ pc[i] = "done"
        /\ exit[i] = "0"
        /\ result[i].error = Null

-----------------------------------------------------------------------------
(* The command: its component state, LocalStorage, start-up and detection *)

\* User events (language changes, edits, re-detections) in a behaviour.
MaxEvents == 3

LANGUAGES_STORAGE_KEY == "detected_languages"

LAST_USED_LANGUAGE_KEY == "lastUsedLanguage"

\* The key `code_${language}`.
CodeKey(l) == "code_" \o l

\* The value of the dropdown's last item.
DetectNewLanguages == "detect-new-languages"

\* LocalStorage.getItem: undefined for a key that is not set.
GetItem(st, k) == IF k \in DOMAIN st THEN st[k] ELSE Undefined

\* LocalStorage.setItem.
SetItem(st, k, v) == [q \in (DOMAIN st) \cup {k} |-> IF q = k THEN v ELSE st[q]]

\* LocalStorage.removeItem.
RemoveItem(st, k) == [q \in (DOMAIN st) \ {k} |-> st[q]]

\* The lists detectInstalledLanguages hands to the command: what it finds
\* on a host whose login shell is silent, with Node.js, Python, both or
\* neither installed.
DetectLists ==
    { DetectedOn([resolves |-> r, shell |-> "ok"], Len(languageChecks)) :
        r \in SUBSET {"node", "python3"} }

\* JSON.stringify of a DetectedLanguage and of a list of them.
JsonLanguage(l) ==
    "{\"name\":\"" \o l.name \o "\",\"value\":\"" \o l.value
        \o "\",\"executablePath\":\"" \o l.executablePath \o "\"}"

RECURSIVE JsonItems(_)
JsonItems(list) ==
    IF list = << >> THEN ""
    ELSE IF Len(list) = 1 THEN JsonLanguage(list[1])
    ELSE JsonLanguage(list[1]) \o "," \o JsonItems(Tail(list))

JsonStringify(list) == "[" \o JsonItems(list) \o "]"

\* JSON.parse of a cached text: the list it was written from, or a
\* SyntaxError for a text that no list was written to.
JsonParse(text) ==
    IF \E l \in DetectLists : JsonStringify(l) = text
    THEN [ok |-> TRUE, list |-> CHOOSE l \in DetectLists : JsonStringify(l) = text]
    ELSE [ok |-> FALSE, list |-> << >>]

\* A JavaScript string in a condition: undefined and "" are falsy.
Truthy(v) == v \notin {Undefined, Null, ""}

getInitialCodeForLanguage(langValue) ==
    IF langValue = "javascript" THEN "console.log(\"Hello from JavaScript!\");"
    ELSE IF langValue = "python" THEN "print(\"Hello from Python!\")"
    ELSE IF langValue = "go" THEN "package main"
    ELSE ""

\* savedCode || getInitialCodeForLanguage(l)
SavedOrInitial(savedCode, l) ==
    IF Truthy(savedCode) THEN savedCode ELSE getInitialCodeForLanguage(l)

\* detected.find((lang) => lang.value === savedLanguage)?.value
\*     ?? detected[0].value, for a list that is not empty.
MatchedLanguageValue(detectedList, savedLanguage) ==
    IF \E k \in DOMAIN detectedList : detectedList[k].value = savedLanguage
    THEN savedLanguage
    ELSE detectedList[1].value

Values(list) == { list[k].value : k \in DOMAIN list }

\* What the start-up and the detection read and write, as one record, so
\* that the steps of one continuation compose.
Ui == [ init |-> isInitializing, lang |-> uiLanguage, code |-> uiCode,
        langs |-> availableLanguages, store |-> storage,
        boot |-> boot, det |-> det ]

SetUi(u) ==
    /\ isInitializing' = u.init
    /\ uiLanguage' = u.lang
    /\ uiCode' = u.code
    /\ availableLanguages' = u.langs
    /\ storage' = u.store
    /\ boot' = u.boot
    /\ det' = u.det

\* A `finally` that leaves the flag as it is.
FinallyKeepsFlag(u) == u

\* finally { setIsInitializing(false) } of performLanguageDetection and of
\* initializeExtension.
Finally(u) == [u EXCEPT !.init = FALSE]

\* performLanguageDetection(showLoadingToast) up to its first await, called
\* by initializeExtension ("boot") or from a handler of the form ("user").
CallDetection(u, caller, showLoadingToast) ==
    [u EXCEPT !.init = TRUE,
              !.det = [ pc |-> IF showLoadingToast THEN "toast" ELSE "detect",
                        caller |-> caller, list |-> << >>,
                        savedLanguage |-> Undefined, matched |-> "" ]]

\* The catch block of performLanguageDetection up to its await.
DetectionCaught(u) ==
    [u EXCEPT !.lang = "", !.code = "", !.det.pc = "caught"]

\* initializeExtension after the performLanguageDetection it awaits has
\* settled: a rejection inside the inner try is caught by the inner catch,
\* which detects again; any other one by the outer catch.
BootResumes(u, rejected) ==
    IF rejected /\ u.boot.pc = "try"
    THEN CallDetection([u EXCEPT !.boot.pc = "catch"], "boot", FALSE)
    ELSE IF rejected
    THEN Finally([u EXCEPT !.lang = "", !.code = "", !.boot = [pc |-> "done"]])
    ELSE Finally([u EXCEPT !.boot = [pc |-> "done"]])

\* A removal that is left out.
RemoveCacheLeftOut(u) == u

\* LocalStorage.removeItem(LANGUAGES_STORAGE_KEY), fulfilled.
RemoveCache(u) == [u EXCEPT !.store = RemoveItem(@, LANGUAGES_STORAGE_KEY)]

\* performLanguageDetection has run its finally block and its promise
\* settles, fulfilled or rejected; the one awaiting it resumes (a handler of
\* the form does nothing more).
DetectionSettles(u, rejected) ==
    LET v == Finally([u EXCEPT !.det = [ pc |-> "idle",
                                         rejected |-> rejected ]]) IN
    IF u.det.caller = "boot" THEN BootResumes(v, rejected) ELSE v

\* The pending await of performLanguageDetection completes (fulfilled when
\* ok, and detectInstalledLanguages with the list detected) and the
\* function runs up to its next await.
DetectionResumes(u, ok, detectedList) ==
    LET d == u.det IN
    IF d.pc = "toast" THEN [u EXCEPT !.det.pc = "detect"]
    ELSE IF d.pc = "detect"
    THEN IF Len(detectedList) = 0
         THEN [u EXCEPT !.langs = detectedList, !.lang = "", !.code = "",
                        !.det.list = detectedList, !.det.pc = "remove"]
         ELSE [u EXCEPT !.langs = detectedList,
                        !.det.list = detectedList, !.det.pc = "cache"]
    ELSE IF d.pc = "caught"
    THEN IF ok
         THEN DetectionSettles(RemoveCache(u), FALSE)
         ELSE DetectionSettles(u, TRUE)
    ELSE IF ~ok THEN DetectionCaught(u)
    ELSE IF d.pc = "remove"
    THEN DetectionSettles(RemoveCache(u), FALSE)
    ELSE IF d.pc = "cache"
    THEN [u EXCEPT !.store = SetItem(@, LANGUAGES_STORAGE_KEY,
                                     JsonStringify(d.list)),
                   !.det.pc = "last"]
    ELSE IF d.pc = "last"
    THEN LET savedLanguage == GetItem(u.store, LAST_USED_LANGUAGE_KEY)
             matched == MatchedLanguageValue(d.list, savedLanguage)
         IN  [u EXCEPT !.lang = matched, !.det.savedLanguage = savedLanguage,
                       !.det.matched = matched, !.det.pc = "code"]
    ELSE IF d.pc = "code"
    THEN [u EXCEPT !.code = SavedOrInitial(
                                GetItem(u.store, CodeKey(d.matched)),
                                d.matched),
                   !.det.pc = "save"]
    ELSE \* d.pc = "save"
         DetectionSettles(
             [u EXCEPT !.store = SetItem(@, LAST_USED_LANGUAGE_KEY, d.matched)],
             FALSE)

\* The pending await of initializeExtension completes and the function
\* runs up to its next await.
BootResumesAwait(u, ok) ==
    LET b == u.boot
        InnerCatch == CallDetection([u EXCEPT !.boot.pc = "catch"], "boot",
                                    FALSE)
    IN
    IF b.pc = "toast" THEN [u EXCEPT !.boot.pc = "cache"]
    ELSE IF b.pc = "cache"
    THEN IF ~ok
         THEN Finally([u EXCEPT !.lang = "", !.code = "",
                                !.boot = [pc |-> "done"]])
         ELSE LET cachedLanguages == GetItem(u.store, LANGUAGES_STORAGE_KEY)
                  parsed == JsonParse(cachedLanguages)
              IN  IF ~Truthy(cachedLanguages)
                  THEN CallDetection([u EXCEPT !.boot.pc = "else"], "boot",
                                     FALSE)
                  ELSE IF ~parsed.ok THEN InnerCatch
                  ELSE IF Len(parsed.list) > 0
                  THEN [u EXCEPT !.langs = parsed.list,
                                 !.boot = [ pc |-> "last",
                                            list |-> parsed.list,
                                            savedLanguage |-> Undefined,
                                            matched |-> "" ]]
                  ELSE CallDetection([u EXCEPT !.langs = parsed.list,
                                               !.boot.pc = "try"],
                                     "boot", FALSE)
    ELSE IF ~ok THEN InnerCatch
    ELSE IF b.pc = "last"
    THEN LET savedLanguage == GetItem(u.store, LAST_USED_LANGUAGE_KEY)
             matched == MatchedLanguageValue(b.list, savedLanguage)
         IN  [u EXCEPT !.lang = matched, !.boot.savedLanguage = savedLanguage,
                       !.boot.matched = matched, !.boot.pc = "code"]
    ELSE IF b.pc = "code"
    THEN [u EXCEPT !.code = SavedOrInitial(
                                GetItem(u.store, CodeKey(b.matched)),
                                b.matched),
                   !.boot.pc = "save"]
    ELSE \* b.pc = "save"
         Finally([u EXCEPT !.store = SetItem(@, LAST_USED_LANGUAGE_KEY,
                                             b.matched),
                           !.boot = [pc |-> "done"]])

\* What the steps of the start-up and of the detection leave alone.
UiRest == << isExecutingCode, uiResult, chg, edit, runs, lastRun, entered, shownBy,
            events >>

\* The component mounts: the effect calls initializeExtension, which runs up
\* to its await of showToast.
Mount ==
    /\ boot.pc = "unmounted"
    /\ isInitializing' = TRUE
    /\ boot' = [pc |-> "toast"]
    /\ UNCHANGED << runVars, detVars, UiRest, uiLanguage, uiCode,
                    availableLanguages, storage, det >>

BootStep ==
    /\ boot.pc \in {"toast", "cache", "last", "code", "save"}
    /\ \E ok \in BOOLEAN : SetUi(BootResumesAwait(Ui, ok))
    /\ UNCHANGED << runVars, detVars, UiRest >>

DetectStep ==
    /\ det.pc # "idle"
    /\ \E ok \in BOOLEAN, detectedList \in DetectLists :
          SetUi(DetectionResumes(Ui, ok, detectedList))
    /\ UNCHANGED << runVars, detVars, UiRest >>

\* The form with no language: shown when the start-up is over and the list
\* is empty.
EmptyForm == ~isInitializing /\ Len(availableLanguages) = 0

\* The main form.
MainForm == ~isInitializing /\ Len(availableLanguages) > 0

\* The action Retry Language Detection of the form with no language.
Retry ==
    /\ EmptyForm
    /\ det.pc = "idle"
    /\ events < MaxEvents
    /\ events' = events + 1
    /\ SetUi(CallDetection(Ui, "user", TRUE))
    /\ UNCHANGED << runVars, detVars, isExecutingCode, uiResult, chg, edit,
                    runs, lastRun, entered, shownBy >>

\* handleLanguageChange("detect-new-languages").
DetectNew ==
    /\ MainForm
    /\ det.pc = "idle"
    /\ events < MaxEvents
    /\ events' = events + 1
    /\ SetUi(CallDetection(Ui, "user", TRUE))
    /\ UNCHANGED << runVars, detVars, isExecutingCode, uiResult, chg, edit,
                    runs, lastRun, entered, shownBy >>

\* handleLanguageChange(newValue) for a language of the dropdown, up to its
\* first await; language and code are the ones of the render the handler
\* belongs to.
ChangeLanguage ==
    /\ MainForm
    /\ chg.pc = "idle"
    /\ events < MaxEvents
    /\ events' = events + 1
    /\ \E newValue \in Values(availableLanguages) :
          chg' = [ pc |-> "saveCode", language |-> uiLanguage,
                   code |-> uiCode, newValue |-> newValue,
                   \* not of the handler: the texts entered before it
                   entered |-> entered ]
    /\ UNCHANGED << runVars, detVars, isInitializing, isExecutingCode,
                    uiLanguage, uiCode, uiResult, availableLanguages, storage,
                    boot, det, edit, runs, lastRun, entered, shownBy >>

\* The pending await of handleLanguageChange completes and the handler runs
\* up to its next await; a rejected one ends the handler (it has no try).
ChangeLanguageStep ==
    /\ chg.pc # "idle"
    /\ \E ok \in BOOLEAN :
          IF ~ok
          THEN /\ chg' = Idle
               /\ UNCHANGED << storage, uiLanguage, uiResult, shownBy, uiCode >>
          ELSE IF chg.pc = "saveCode"
          THEN /\ storage' = SetItem(storage, CodeKey(chg.language), chg.code)
               /\ uiLanguage' = chg.newValue
               /\ uiResult' = << >>
               /\ shownBy' = 0
               /\ chg' = [chg EXCEPT !.pc = "load"]
               /\ UNCHANGED uiCode
          ELSE IF chg.pc = "load"
          THEN /\ uiCode' = SavedOrInitial(
                                GetItem(storage, CodeKey(chg.newValue)),
                                chg.newValue)
               /\ chg' = [chg EXCEPT !.pc = "last"]
               /\ UNCHANGED << storage, uiLanguage, uiResult, shownBy >>
          ELSE /\ storage' = SetItem(storage, LAST_USED_LANGUAGE_KEY,
                                     chg.newValue)
               /\ chg' = Idle
               /\ UNCHANGED << uiLanguage, uiResult, shownBy, uiCode >>
    /\ UNCHANGED << runVars, detVars, isInitializing, isExecutingCode,
                    availableLanguages, boot, det, edit, runs, lastRun, entered,
                    events >>

\* What LocalStorage may hold when the command starts: nothing, or what an
\* earlier session left (a cached list, a last-used language, a saved
\* code), or a cached text that is an empty list or is not JSON.
CachedTexts == { JsonStringify(l) : l \in DetectLists } \cup {"<html>"}

SavedLanguages == {"javascript", "python", "go"}

SavedCodes == {"print(1)"}

StoredAtStart ==
    { st \in UNION { [ks -> CachedTexts \cup SavedLanguages \cup SavedCodes] :
                       ks \in SUBSET { LANGUAGES_STORAGE_KEY,
                                       LAST_USED_LANGUAGE_KEY,
                                       CodeKey("python") } } :
        /\ LANGUAGES_STORAGE_KEY \in DOMAIN st
              => st[LANGUAGES_STORAGE_KEY] \in CachedTexts
        /\ LAST_USED_LANGUAGE_KEY \in DOMAIN st
              => st[LAST_USED_LANGUAGE_KEY] \in SavedLanguages
        /\ CodeKey("python") \in DOMAIN st
              => st[CodeKey("python")] \in SavedCodes }

\* The command is opened.
InitBoot ==
    /\ variant = "util"
    /\ RunCodeIdle
    /\ env = [resolves |-> DetectCommands, shell |-> "ok"]
    /\ DetectIdle
    /\ UiIdle
    /\ storage \in StoredAtStart

NextBoot ==
    \/ Mount
    \/ BootStep
    \/ DetectStep
    \/ Retry
    \/ DetectNew
    \/ ChangeLanguage
    \/ ChangeLanguageStep

SpecBoot == InitBoot /\ [][NextBoot]_vars

\* The start-up alone: no form is shown, and so no handler runs, before
\* the start-up is over.
NextStartUp ==
    \/ Mount
    \/ BootStep
    \/ DetectStep

SpecStartUp == InitBoot /\ [][NextStartUp]_vars

\* Every await of the start-up and of the detection settles: the toast, the
\* storage operations and the probes all call back.
SpecStartUpFair ==
    /\ SpecStartUp
    /\ WF_vars(Mount)
    /\ WF_vars(BootStep)
    /\ WF_vars(DetectStep)

-----------------------------------------------------------------------------
(* The command: running the code, editing it *)

\* What the user types in the text area, and what Clear Code leaves.
UserTexts == {"", "  ", "print(2)"}

\* Texts of white space only.
WhiteSpaceOnly == {"", " ", "  ", "\n", " \n"}

\* code.trim(): no other text of the model starts or ends with white space.
CodeTrim(c) == IF c \in WhiteSpaceOnly THEN "" ELSE c

\* The ways a call runCode(language, code) of the form settles: fulfilled
\* with the result of the run, or rejected.
RunCodeSettles(l, c) ==
    { [ rejected |-> FALSE,
        result |-> [ stdout |-> "output of " \o c \o " as " \o l,
                     stderr |-> "", error |-> Null, command |-> l ] ],
      [ rejected |-> TRUE,
        result |-> [ stdout |-> "", stderr |-> "",
                     error |-> "ENOSPC: no space left on device, mkdir",
                     command |-> Null ] ] }

\* handleRunCode of the render shown, up to its await of showToast.
SubmitRun ==
    /\ MainForm
    /\ lastRun < MaxRuns
    /\ lastRun' = lastRun + 1
    /\ isExecutingCode' = TRUE
    /\ uiResult' = << >>
    /\ shownBy' = 0
    /\ runs' = [runs EXCEPT ![lastRun + 1] =
                  [pc |-> "toast", language |-> uiLanguage, code |-> uiCode]]
    /\ UNCHANGED << runVars, detVars, isInitializing, uiLanguage, uiCode,
                    availableLanguages, storage, boot, det, chg, edit,
                    entered, events >>

\* The pending await of a handleRunCode completes (the toast is shown, or
\* runCode settles) and the handler runs up to its next await or its end.
RunStep(r) ==
    /\ runs[r].pc \in {"toast", "running"}
    /\ IF runs[r].pc = "toast"
       THEN IF CodeTrim(runs[r].code) = ""
            THEN /\ runs' = [runs EXCEPT ![r].pc = "done"]
                 /\ isExecutingCode' = FALSE
                 /\ UNCHANGED << uiResult, shownBy >>
            ELSE /\ runs' = [runs EXCEPT ![r].pc = "running"]
                 /\ UNCHANGED << isExecutingCode, uiResult, shownBy >>
       ELSE \E s \in RunCodeSettles(runs[r].language, runs[r].code) :
               /\ uiResult' = << s.result >>
               /\ shownBy' = r
               /\ isExecutingCode' = FALSE
               /\ runs' = [runs EXCEPT ![r].pc = "done"]
    /\ UNCHANGED << runVars, detVars, isInitializing, uiLanguage, uiCode,
                    availableLanguages, storage, boot, det, chg, edit,
                    lastRun, entered, events >>

\* handleCodeChange(newCode), up to its await: the user edits the text, or
\* picks Clear Code.
CodeChange ==
    /\ MainForm
    /\ edit.pc = "idle"
    /\ events < MaxEvents
    /\ events' = events + 1
    /\ \E newCode \in UserTexts :
          /\ uiCode' = newCode
          /\ entered' = SetItem(entered, uiLanguage, newCode)
          /\ edit' = [pc |-> "save", language |-> uiLanguage,
                      code |-> newCode]
    /\ UNCHANGED << runVars, detVars, isInitializing, isExecutingCode,
                    uiLanguage, uiResult, availableLanguages, storage, boot,
                    det, chg, runs, lastRun, shownBy >>

\* The setItem of handleCodeChange settles.
CodeChangeStep ==
    /\ edit.pc = "save"
    /\ edit' = Idle
    /\ \E ok \in BOOLEAN :
          storage' = IF ok THEN SetItem(storage, CodeKey(edit.language),
                                        edit.code)
                     ELSE storage
    /\ UNCHANGED << runVars, detVars, isInitializing, isExecutingCode,
                    uiLanguage, uiCode, uiResult, availableLanguages, boot,
                    det, chg, runs, lastRun, entered, shownBy, events >>

\* The main form as a start-up from a cached list leaves it: Node.js and
\* Python available, the last-used language selected with its snippet or
\* the code saved for it.
InitRunUi ==
    /\ variant = "util"
    /\ RunCodeIdle
    /\ env = [resolves |-> DetectCommands, shell |-> "ok"]
    /\ DetectIdle
    /\ isInitializing = FALSE
    /\ isExecutingCode = FALSE
    /\ uiResult = << >>
    /\ availableLanguages
          = DetectedOn([resolves |-> {"node", "python3"}, shell |-> "ok"],
                       Len(languageChecks))
    /\ uiLanguage \in Values(availableLanguages)
    /\ \E saved \in SUBSET {CodeKey("python")} :
          storage = [k \in { LANGUAGES_STORAGE_KEY, LAST_USED_LANGUAGE_KEY }
                             \cup saved |->
                        IF k = LANGUAGES_STORAGE_KEY
                        THEN JsonStringify(availableLanguages)
                        ELSE IF k = LAST_USED_LANGUAGE_KEY THEN uiLanguage
                        ELSE "print(1)"]
    /\ uiCode = SavedOrInitial(GetItem(storage, CodeKey(uiLanguage)),
                               uiLanguage)
    /\ boot = [pc |-> "done"]
    /\ det = Idle
    /\ chg = Idle
    /\ edit = Idle
    /\ runs = [r \in RunIds |-> Idle]
    /\ lastRun = 0
    /\ entered = << >>
    /\ shownBy = 0
    /\ events = 0

NextRunUi ==
    \/ SubmitRun
    \/ \E r \in RunIds : RunStep(r)
    \/ ChangeLanguage
    \/ ChangeLanguageStep
    \/ CodeChange
    \/ CodeChangeStep

SpecRunUi == InitRunUi /\ [][NextRunUi]_vars

-----------------------------------------------------------------------------
(* Claims C26 to C30 *)

\* C26: the flag isInitializing eventually becomes false and stays false
\* after the start-up, on every path of it: a cached list, an empty cached
\* list, a cached text that does not parse, a detection that finds no
\* language, and storage operations that throw.
C26_InitializingEnds == <>[](~isInitializing)

\* The start-up is over after a storage operation of the detection threw.
C26_Witness ==
    /\ boot.pc = "done"
    /\ det.pc = "idle"
    /\ ~isInitializing
    /\ Len(availableLanguages) > 0
    /\ uiLanguage = ""
    /\ LANGUAGES_STORAGE_KEY \notin DOMAIN storage

\* The last-used language that the start-up or the detection under way read
\* from LocalStorage (undefined when none was set, or none was read).
SavedLanguageRead ==
    IF det.pc # "idle" THEN det.savedLanguage
    ELSE IF boot.pc \in {"code", "save"} THEN boot.savedLanguage
    ELSE Undefined

\* C27: when the start-up or a re-detection completes and the list of
\* available languages is not empty, the selected language is the last-used
\* language read from LocalStorage if it is in the list, the first language
\* of the list otherwise, and the last-used key holds the selected language.
C27_SelectedAfterDetection ==
    [][ (isInitializing /\ ~isInitializing' /\ Len(availableLanguages') > 0)
        => /\ uiLanguage' = MatchedLanguageValue(availableLanguages',
                                                 SavedLanguageRead)
           /\ LAST_USED_LANGUAGE_KEY \in DOMAIN storage'
           /\ storage'[LAST_USED_LANGUAGE_KEY] = uiLanguage' ]_vars

\* C28: whenever the start-up or a detection is not in progress and the
\* list of available languages is not empty, the selected language is one
\* of the list, after any sequence of start-up, language changes,
\* re-detections and failed detections.
C28_SelectedIsAvailable ==
    (~isInitializing /\ Len(availableLanguages) > 0)
        => uiLanguage \in Values(availableLanguages)

\* A run of the form whose runCode call has not settled.
InFlight(r) == runs[r].pc = "running"

\* C29: a run submitted with a code that is empty or white space only
\* never calls runCode, does not set the result and resets the flag
\* isExecutingCode; and isExecutingCode is true as long as a runCode call
\* of the form has not settled, overlapping runs included.
C29_ExecutingWhileInFlight ==
    [][ /\ \A r \in RunIds :
             (runs[r].pc = "toast" /\ runs'[r].pc # "toast"
                /\ CodeTrim(runs[r].code) = "")
             => /\ runs'[r].pc = "done"
                /\ uiResult' = uiResult
                /\ ~isExecutingCode'
        /\ (\E r \in RunIds : runs'[r].pc = "running") => isExecutingCode'
      ]_vars

\* C30: the result shown was produced by the run submitted last, for the
\* language selected now: a run that settles after the language was
\* changed, or after a later run was submitted, does not set it.
C30_ResultOfLatestRun ==
    uiResult # << >>
        => /\ shownBy = lastRun
           /\ runs[shownBy].language = uiLanguage

-----------------------------------------------------------------------------
(* Claims C31 and C32 *)

\* C31: the code kept per language round-trips. When the user switches
\* from another language to a language A for which a text had been entered
\* before (the empty text of Clear Code included), the text restored is the
\* one entered for A last; and the key of a language is never written with
\* a text that was entered for another language and not for it.
C31_CodeRoundTrips ==
    [][ /\ (chg.pc = "load" /\ chg'.pc = "last"
              /\ chg.language # chg.newValue
              /\ chg.newValue \in DOMAIN chg.entered)
           => uiCode' = chg.entered[chg.newValue]
        /\ \A a \in Values(availableLanguages) :
              (GetItem(storage', CodeKey(a)) # GetItem(storage, CodeKey(a)))
              => ~ \E b \in DOMAIN entered' :
                      /\ b # a
                      /\ entered'[b] = storage'[CodeKey(a)]
                      /\ GetItem(entered', a) # storage'[CodeKey(a)]
      ]_vars

\* The cached list, or undefined.
Cached(st) == GetItem(st, LANGUAGES_STORAGE_KEY)

\* performLanguageDetection settles in this step, fulfilled, after it found
\* no language or caught an error.
SettlesAfterNoneOrFailure ==
    /\ det.pc \in {"remove", "caught"}
    /\ det'.pc = "idle"
    /\ ~det'.rejected

====
